---- MODULE Spec2Model ----
(***************************************************************************)
(* Waybar temperature module (src/modules/temperature.cpp): the            *)
(* constructor's sensor-path resolution and validation, and update(): the  *)
(* read of the sensor file, the unit conversion, the threshold             *)
(* classification, the style classes and the rendering of the label and    *)
(* tooltip.                                                                *)
(*                                                                         *)
(* Strings (paths, file lines, rendered text) are sequences of one-        *)
(* character strings, so that concatenation, prefix tests, strtol and the  *)
(* decimal formatting of integers are computed, not assumed.               *)
(***************************************************************************)
EXTENDS Integers, Sequences, FiniteSets, TLC

VARIABLES
    config,        \* config_: the Json::Value the instance was built with
    fs,            \* the file system: fs.files[path], fs.dirs[path]
    pc,            \* "new" | "running" (thread_ started) | "failed" (ctor threw)
    error,         \* what() of the exception the constructor threw, or NoError
    file_path_,    \* Temperature::file_path_
    sensor_type_,  \* Temperature::sensor_type_
    classes,       \* style classes on label_ ("critical", "warning")
    visible,       \* event_box_ shown (TRUE) or hidden (FALSE)
    markup,        \* text last given to label_.set_markup
    tooltip,       \* text last given to label_.set_tooltip_text
    tick,          \* update()'s locals at the latest call that computed them
    outcome        \* how the latest update() call ended

vars == <<config, fs, pc, error, file_path_, sensor_type_,
          classes, visible, markup, tooltip, tick, outcome>>

display == <<classes, visible, markup, tooltip>>

----------------------------------------------------------------------------
(* Bounds of the model.                                                    *)

\* thermal-zone indices tried in the configuration: 0..MaxZone
MaxZone == 1

----------------------------------------------------------------------------
(* Integer helpers.                                                        *)

Abs(n) == IF n < 0 THEN 0 - n ELSE n

RECURSIVE Pow2(_)
Pow2(k) == IF k <= 0 THEN 1 ELSE 2 * Pow2(k - 1)

\* number of binary digits of n >= 0 (0 for n = 0)
RECURSIVE Bits(_)
Bits(n) == IF n <= 0 THEN 0 ELSE 1 + Bits(n \div 2)

\* uint16_t's modulus
U16 == 65536

----------------------------------------------------------------------------
(* Strings as sequences of characters.                                     *)

DigitChars == <<"0", "1", "2", "3", "4", "5", "6", "7", "8", "9">>

IsDigit(c) == \E i \in 1..10 : DigitChars[i] = c

DigitVal(c) == (CHOOSE i \in 1..10 : DigitChars[i] = c) - 1

\* fmt's "{}" of a non-negative integer: its decimal digits
RECURSIVE IntToStr(_)
IntToStr(n) ==
    IF n < 10 THEN <<DigitChars[n + 1]>>
    ELSE IntToStr(n \div 10) \o <<DigitChars[(n % 10) + 1]>>

\* std::string::starts_with
StartsWith(s, p) == Len(s) >= Len(p) /\ SubSeq(s, 1, Len(p)) = p

\* std::strtol(line, nullptr, 10): leading blanks, an optional sign, then the
\* longest run of decimal digits; 0 when no digit follows.
RECURSIVE SkipSpace(_)
SkipSpace(s) == IF s # <<>> /\ Head(s) = " " THEN SkipSpace(Tail(s)) ELSE s

RECURSIVE DigitsValue(_, _)
DigitsValue(s, acc) ==
    IF s # <<>> /\ IsDigit(Head(s))
    THEN DigitsValue(Tail(s), acc * 10 + DigitVal(Head(s)))
    ELSE acc

strtol(line) ==
    LET s == SkipSpace(line) IN
    IF s # <<>> /\ Head(s) = "-" THEN 0 - DigitsValue(Tail(s), 0)
    ELSE IF s # <<>> /\ Head(s) = "+" THEN DigitsValue(Tail(s), 0)
    ELSE DigitsValue(s, 0)

----------------------------------------------------------------------------
(* Floating point, as far as update() depends on it.                       *)

\* std::round of the exact quotient n/d (d > 0): nearest, halves away from 0
RoundHalfAway(n, d) ==
    LET a == Abs(n)
        m == (a \div d) + (IF 2 * (a % d) >= d THEN 1 ELSE 0)
    IN  IF n < 0 THEN 0 - m ELSE m

\* Fraction bits a float has just below q + 0.5 (24-bit significand).
FracBits(q) == IF q = 0 THEN 25 ELSE 24 - Bits(q)

\* std::round((float)(raw / d)) for a divisor 1000.0 or 1000000.0: getReadings
\* returns float, so the double quotient is first rounded to 24 significant
\* bits.  q + 0.5 is itself a float, so the result differs from the rounding
\* of the exact quotient exactly when the quotient lies within half a float
\* ulp below q + 0.5 (raw is a long below 2^31 here, so q < 2^22 and the tie
\* goes to the even significand, which is q + 0.5).
RoundFloatQuotient(raw, d) ==
    LET a == Abs(raw)
        q == a \div d
        rem == a % d
        f == FracBits(q)
        up == \/ 2 * rem >= d
              \/ /\ Pow2(f) <= d
                 /\ d - 2 * rem <= d \div Pow2(f)
        m == IF up THEN q + 1 ELSE q
    IN  IF raw < 0 THEN 0 - m ELSE m

\* std::round(static_cast<float>(reading)): a long of more than 24 bits is
\* rounded to 24 significant bits, ties to even.
RoundFloatLong(raw) ==
    LET a == Abs(raw)
        b == Bits(a)
        step == Pow2(b - 24)
        lo == (a \div step) * step
        r == a % step
        m == IF b <= 24 THEN a
             ELSE IF 2 * r > step \/ (2 * r = step /\ (a \div step) % 2 = 1)
                  THEN lo + step
                  ELSE lo
    IN  IF raw < 0 THEN 0 - m ELSE m

\* Conversion of a floating value v (already integral) to uint16_t.  In range
\* it is v.  Out of range the conversion is undefined behaviour; the builds
\* either truncate a wider integer conversion (v modulo 2^16) or saturate.
ToU16(v) ==
    IF v >= 0 /\ v < U16 THEN {v}
    ELSE {v % U16, IF v < 0 THEN 0 ELSE U16 - 1}

----------------------------------------------------------------------------
(* The file system the constructor and getReadings look at.                *)

\* A file: "missing" (does not exist), "noperm" (exists, open fails),
\* "ioerr" (opens, every read fails: a directory, a device returning EIO),
\* "ok" (opens, the first line is `line`).
Missing == [st |-> "missing", line |-> <<>>]
NoPerm == [st |-> "noperm", line |-> <<>>]
IoErr == [st |-> "ioerr", line |-> <<>>]
File(line) == [st |-> "ok", line |-> line]

FileAt(fsys, path) ==
    IF path \in DOMAIN fsys.files THEN fsys.files[path] ELSE Missing

\* std::filesystem::exists
exists(fsys, path) == FileAt(fsys, path).st # "missing"

\* std::filesystem::is_directory
is_directory(fsys, path) == path \in DOMAIN fsys.dirs /\ fsys.dirs[path].isdir

\* the names std::filesystem::directory_iterator(path) yields (in no fixed order)
Entries(fsys, path) == fsys.dirs[path].entries

\* std::ifstream f(path): is_open() fails for a missing or unopenable file;
\* the constructor sets failbit exactly when the open fails, so a stream that
\* is open is good() until something is read from it.
ifstream(fsys, path) ==
    LET f == FileAt(fsys, path)
        opened == f.st \in {"ok", "ioerr"}
    IN  [is_open |-> opened, good |-> opened, file |-> f]

\* getline(file, line): the first line, or nothing when the read fails
getline(stream) == IF stream.file.st = "ok" THEN stream.file.line ELSE <<>>

----------------------------------------------------------------------------
(* Paths and names used by the configurations of the model.                *)

Slash == <<"/">>
PathA == <<"/", "a">>
PathB == <<"/", "b">>
DirD == <<"/", "d">>
DirE == <<"/", "e">>
Hwmon == <<"h", "w", "m", "o", "n">>
Hwmon3 == <<"h", "w", "m", "o", "n", "3">>
Hwmon4 == <<"h", "w", "m", "o", "n", "4">>
Power == <<"p", "o", "w", "e", "r">>
InputName == <<"i", "n">>

\* fmt::format("/sys/class/thermal/thermal_zone{}/temp", zone)
ThermalZonePath(zone) ==
    <<"/", "s", "y", "s", "/", "c", "l", "a", "s", "s", "/", "t", "h", "e", "r", "m", "a", "l", "/", "t", "h", "e", "r", "m", "a", "l", "_", "z", "o", "n", "e">>
    \o IntToStr(zone) \o <<"/", "t", "e", "m", "p">>

----------------------------------------------------------------------------
(* Temperature::Temperature: sensor type, path resolution, validation.     *)
(* An absent configuration key is the empty sequence, a present one the    *)
(* one-element sequence of its value; hwmon-path and hwmon-path-abs are    *)
(* the sequence of their items (a JSON string is the one-item sequence).   *)

isString(v) == Len(v) = 1
isInt(v) == Len(v) = 1
asString(v) == v[1]
asInt(v) == v[1]

\* lines 15-19: sensor_type_ keeps its default TEMPERATURE unless "type" says
SensorTypeOf(cfg) ==
    IF isString(cfg.type) /\ asString(cfg.type) = "fan" THEN "FAN"
    ELSE IF isString(cfg.type) /\ asString(cfg.type) = "power" THEN "POWER"
    ELSE "TEMPERATURE"

\* lines 30-34 under traverseAsArray: file_path_ after the hwmon-path items
\* were tried in order, stopping at the first that exists
RECURSIVE ResolveHwmonPath(_, _)
ResolveHwmonPath(fsys, items) ==
    IF items = <<>> THEN <<>>
    ELSE IF exists(fsys, Head(items)) THEN Head(items)
    ELSE ResolveHwmonPath(fsys, Tail(items))

\* lines 38-46: the values file_path_ can have after the hwmon-path-abs items
\* were tried in order; any_of stops at the first entry named hwmon*, and the
\* directory's iteration order is unspecified
RECURSIVE ResolveHwmonPathAbs(_, _, _)
ResolveHwmonPathAbs(fsys, items, input) ==
    IF items = <<>> THEN {<<>>}
    ELSE LET dir == Head(items)
             found == IF is_directory(fsys, dir)
                      THEN {e \in Entries(fsys, dir) : StartsWith(e, Hwmon)}
                      ELSE {}
         IN  IF found # {}
             THEN {dir \o Slash \o e \o Slash \o input : e \in found}
             ELSE ResolveHwmonPathAbs(fsys, Tail(items), input)

\* ResolveThermalZone with a fallback that overrides a path already found
ResolveThermalZoneAlways(cfg, type, path) ==
    IF type = "TEMPERATURE"
    THEN ThermalZonePath(IF Len(cfg.thermal_zone) = 1 THEN cfg.thermal_zone[1] ELSE 0)
    ELSE path

\* lines 49-52: the thermal-zone fallback
ResolveThermalZone(cfg, type, path) ==
    IF path = <<>> /\ type = "TEMPERATURE"
    THEN ThermalZonePath(IF isInt(cfg.thermal_zone) THEN asInt(cfg.thermal_zone) ELSE 0)
    ELSE path

\* lines 21-52: the values file_path_ can have when resolution ends
ResolvePath(cfg, fsys) ==
    LET type == SensorTypeOf(cfg)
        p1 == ResolveHwmonPath(fsys, cfg.hwmon_path)
        P2 == IF p1 = <<>> /\ isString(cfg.input_filename)
              THEN ResolveHwmonPathAbs(fsys, cfg.hwmon_path_abs,
                                       asString(cfg.input_filename))
              ELSE {p1}
    IN  {ResolveThermalZone(cfg, type, p2) : p2 \in P2}

NoError == [what |-> "", path |-> <<>>]

\* lines 55-63: "" when file_path_ can be used, else what the constructor throws
Validate(fsys, path) ==
    LET temp == ifstream(fsys, path) IN
    IF ~temp.is_open THEN [what |-> "Can't open ", path |-> path]
    ELSE IF ~temp.good THEN [what |-> "Can't read from ", path |-> path]
    ELSE NoError

\* lines 10-70: the constructor's possible results
Ctor(cfg, fsys) ==
    {[file_path_ |-> p,
      sensor_type_ |-> SensorTypeOf(cfg),
      error |-> Validate(fsys, p),
      pc |-> IF Validate(fsys, p) = NoError THEN "running" ELSE "failed"] :
        p \in ResolvePath(cfg, fsys)}

----------------------------------------------------------------------------
(* Format templates and fmt::format.                                       *)
(* A template is a sequence of tokens: literal text, or a replacement      *)
(* field {name}.                                                           *)

Lit(text) == [k |-> "lit", v |-> text]
Arg(name) == [k |-> "arg", v |-> <<name>>]

\* line 11: ALabel's default format "{temperatureC}°C"
DefaultFormat == <<Arg("temperatureC"), Lit(<<"°", "C">>)>>

RECURSIVE Substitute(_, _)
Substitute(template, named) ==
    IF template = <<>> THEN <<>>
    ELSE LET t == Head(template) IN
         (IF t.k = "lit" THEN t.v ELSE named[t.v[1]])
         \o Substitute(Tail(template), named)

\* fmt::format(fmt::runtime(template), named...): a field whose name is not
\* among the arguments throws fmt::format_error
fmt_format(template, named) ==
    IF \E i \in 1..Len(template) :
          template[i].k = "arg" /\ template[i].v[1] \notin DOMAIN named
    THEN [ok |-> FALSE, text |-> <<>>]
    ELSE [ok |-> TRUE, text |-> Substitute(template, named)]

----------------------------------------------------------------------------
(* Temperature::getReadings, isWarning, isCritical.                        *)

\* lines 171-195: the exception thrown, or the float returned, kept exact as
\* the long `reading` and the divisor applied to it
getReadings(fsys, path, type) ==
    LET file == ifstream(fsys, path)
        reading == strtol(getline(file))
    IN  IF ~file.is_open
        THEN [throws |-> TRUE, what |-> "Can't open ", reading |-> 0, div |-> 1]
        ELSE IF ~file.good
        THEN [throws |-> TRUE, what |-> "Can't read from ", reading |-> 0, div |-> 1]
        ELSE [throws |-> FALSE, what |-> "", reading |-> reading,
              div |-> CASE type = "TEMPERATURE" -> 1000
                        [] type = "POWER" -> 1000000
                        [] OTHER -> 1]

\* RoundReadings with the fraction cut off instead of rounded
TruncReadings(r) ==
    IF r.reading < 0 THEN 0 - ((0 - r.reading) \div r.div) ELSE r.reading \div r.div

\* line 73: std::round(getReadings()), before the conversion to uint16_t
RoundReadings(r) ==
    IF r.div = 1 THEN RoundFloatLong(r.reading)
    ELSE RoundFloatQuotient(r.reading, r.div)

\* lines 199-202
isWarning(cfg, temperature_c) ==
    isInt(cfg.warning_threshold) /\ temperature_c >= asInt(cfg.warning_threshold)

\* lines 204-207
isCritical(cfg, temperature_c) ==
    isInt(cfg.critical_threshold) /\ temperature_c >= asInt(cfg.critical_threshold)

----------------------------------------------------------------------------
(* Temperature::update.                                                    *)

\* ALabel: format_ is the configured "format", else the default of line 11
format_(cfg) == IF isString(cfg.format) THEN asString(cfg.format) ELSE DefaultFormat

\* AModule::tooltipEnabled
tooltipEnabled(cfg) == cfg.tooltip

\* ALabel::getIcon(readings, "", max_reading): the icon text
getIcon(readings, max_reading) == <<"*">>

\* SelectFormat with the warning branch tested before the critical one
SelectFormatWarningFirst(cfg, critical, warning) ==
    IF warning
    THEN IF Len(cfg.format_warning) = 1 THEN cfg.format_warning[1] ELSE format_(cfg)
    ELSE IF critical
    THEN IF Len(cfg.format_critical) = 1 THEN cfg.format_critical[1] ELSE format_(cfg)
    ELSE format_(cfg)

\* lines 76-88: the template chosen
SelectFormat(cfg, critical, warning) ==
    IF critical
    THEN IF isString(cfg.format_critical) THEN asString(cfg.format_critical)
         ELSE format_(cfg)
    ELSE IF warning
    THEN IF isString(cfg.format_warning) THEN asString(cfg.format_warning)
         ELSE format_(cfg)
    ELSE format_(cfg)

\* lines 77-88: the style classes of label_ after add_class / remove_class
StyleClasses(old, critical, warning) ==
    IF critical THEN old \cup {"critical"}
    ELSE IF warning THEN (old \ {"critical"}) \cup {"warning"}
    ELSE (old \ {"critical"}) \ {"warning"}

\* Hides testing the base format_ instead of the template chosen
HidesOnBaseFormat(cfg, format) == format_(cfg) = <<>>

\* lines 90-95: an empty template hides event_box_ and ends the call
Hides(cfg, format) == format = <<>>

\* line 108: std::round(readings * 1.8 + 32), before the conversion to uint16_t
Fahrenheit(readings) == RoundHalfAway(9 * readings + 160, 5)

\* line 109: std::round(readings + 273.15), before the conversion to uint16_t
Kelvin(readings) == RoundHalfAway(100 * readings + 27315, 100)

\* lines 100-117: the values of the five locals for a sensor type
Quantities(type, readings, tf, tk) ==
    [temperature_c |-> IF type = "TEMPERATURE" THEN readings ELSE 0,
     temperature_f |-> IF type = "TEMPERATURE" THEN tf ELSE 0,
     temperature_k |-> IF type = "TEMPERATURE" THEN tk ELSE 0,
     fan_speed |-> IF type = "FAN" THEN readings ELSE 0,
     power |-> IF type = "POWER" THEN readings ELSE 0]

\* lines 141-143: the named arguments of the tooltip's fmt::format
TooltipArgs(q) ==
    [n \in {"temperatureC", "temperatureF", "temperatureK", "power", "fan"} |->
        CASE n = "temperatureC" -> IntToStr(q.temperature_c)
          [] n = "temperatureF" -> IntToStr(q.temperature_f)
          [] n = "temperatureK" -> IntToStr(q.temperature_k)
          [] n = "power" -> IntToStr(q.power)
          [] OTHER -> IntToStr(q.fan_speed)]

\* lines 119-123: the named arguments of the label's fmt::format
MarkupArgs(q, icon) ==
    [n \in {"temperatureC", "temperatureF", "temperatureK", "icon", "fan", "power"} |->
        CASE n = "temperatureC" -> IntToStr(q.temperature_c)
          [] n = "temperatureF" -> IntToStr(q.temperature_f)
          [] n = "temperatureK" -> IntToStr(q.temperature_k)
          [] n = "icon" -> icon
          [] n = "power" -> IntToStr(q.power)
          [] OTHER -> IntToStr(q.fan_speed)]

\* lines 125-139: the tooltip template
TooltipFormat(cfg, type) ==
    IF isString(cfg.tooltip_format) THEN asString(cfg.tooltip_format)
    ELSE CASE type = "TEMPERATURE" -> DefaultFormat
           [] type = "FAN" -> <<Arg("fan"), Lit(<<" ", "R", "P", "M">>)>>
           [] OTHER -> <<Arg("power"), Lit(<<"W">>)>>

\* lines 95-146: the call from event_box_.show() on, for a non-empty template
\* t.format: the label's text, then the tooltip's; a fmt::format that throws
\* ends the call with what was set before it
RenderResult(cfg, type, old, t, cls, tf, tk) ==
    LET max_reading == IF isInt(cfg.critical_threshold)
                       THEN asInt(cfg.critical_threshold) ELSE 0
        q == Quantities(type, t.readings, tf, tk)
        now == [t EXCEPT !.q = q]
        m == fmt_format(t.format, MarkupArgs(q, getIcon(t.readings, max_reading)))
        tt == fmt_format(TooltipFormat(cfg, type), TooltipArgs(q))
        shown == [classes |-> cls, visible |-> TRUE, markup |-> old.markup,
                  tooltip |-> old.tooltip, tick |-> now, outcome |-> "format_error"]
    IN  IF ~m.ok THEN shown
        ELSE IF ~tooltipEnabled(cfg)
        THEN [shown EXCEPT !.markup = m.text, !.outcome = "shown"]
        ELSE IF ~tt.ok THEN [shown EXCEPT !.markup = m.text]
        ELSE [shown EXCEPT !.markup = m.text, !.tooltip = tt.text,
                           !.outcome = "shown"]

\* lines 74-117: classification, template, style classes, the hide of an
\* empty template, and the conversions of the derived temperatures
ClassifyResult(cfg, type, old, readings) ==
    LET critical == isCritical(cfg, readings)
        warning == isWarning(cfg, readings)
        format == SelectFormat(cfg, critical, warning)
        cls == StyleClasses(old.classes, critical, warning)
        t == [old.tick EXCEPT !.readings = readings, !.critical = critical,
                              !.warning = warning, !.format = format]
    IN  IF Hides(cfg, format)
        THEN {[classes |-> cls, visible |-> FALSE, markup |-> old.markup,
               tooltip |-> old.tooltip, tick |-> t, outcome |-> "hidden"]}
        ELSE {RenderResult(cfg, type, old, t, cls, tf, tk) :
                tf \in (IF type = "TEMPERATURE" THEN ToU16(Fahrenheit(readings)) ELSE {0}),
                tk \in (IF type = "TEMPERATURE" THEN ToU16(Kelvin(readings)) ELSE {0})}

\* lines 72-147: every way one call of update() can end, as the new display
\* state, locals and outcome; `old` is the state the call starts in.  An
\* exception of getReadings leaves the call before anything is changed.
UpdateResults(cfg, type, fsys, path, old) ==
    LET r == getReadings(fsys, path, type) IN
    IF r.throws
    THEN {[classes |-> old.classes, visible |-> old.visible, markup |-> old.markup,
           tooltip |-> old.tooltip, tick |-> old.tick, outcome |-> "read_error"]}
    ELSE UNION {ClassifyResult(cfg, type, old, readings) :
                  readings \in ToU16(RoundReadings(r))}

----------------------------------------------------------------------------
(* Configurations, file contents and file systems of the model.            *)

L45123 == <<"4", "5", "1", "2", "3">>
L45400 == <<"4", "5", "4", "0", "0">>
L60000 == <<"6", "0", "0", "0", "0">>
L85000 == <<"8", "5", "0", "0", "0">>
LMinus5000 == <<"-", "5", "0", "0", "0">>
L65600000 == <<"6", "5", "6", "0", "0", "0", "0", "0">>
LGarbage == <<"a", "b", "c">>
L1250000 == <<"1", "2", "5", "0", "0", "0", "0">>
L999999 == <<"9", "9", "9", "9", "9", "9">>
L32499999 == <<"3", "2", "4", "9", "9", "9", "9", "9">>
L1500000 == <<"1", "5", "0", "0", "0", "0", "0">>

\* first lines the sensor file can hold
Lines == {L45123, L45400, L60000, L85000, LMinus5000, L65600000, LGarbage, L1250000, L999999, L32499999,
          L1500000}

\* what the sensor file can be at a tick
SensorStates == {Missing, NoPerm, IoErr} \cup {File(l) : l \in Lines}

Sep == Lit(<<"/">>)

\* "{icon}{temperatureC}/{temperatureF}/{temperatureK}/{fan}/{power}"
AllFields ==
    <<Arg("icon"), Arg("temperatureC"), Sep, Arg("temperatureF"), Sep,
      Arg("temperatureK"), Sep, Arg("fan"), Sep, Arg("power")>>

\* "{temperatureC}/{temperatureF}/{temperatureK}/{fan}/{power}"
FiveFields == Tail(AllFields)

\* "{temperatureF}F"
WarnFormat == <<Arg("temperatureF"), Lit(<<"F">>)>>

NoLocator ==
    [hwmon_path |-> <<PathA>>, hwmon_path_abs |-> <<>>, input_filename |-> <<>>,
     thermal_zone |-> <<>>]

NoDisplay ==
    [warning_threshold |-> <<>>, critical_threshold |-> <<>>, format |-> <<>>,
     format_critical |-> <<>>, format_warning |-> <<>>, tooltip_format |-> <<>>,
     tooltip |-> TRUE]

Merge(a, b) ==
    [k \in DOMAIN a \cup DOMAIN b |-> IF k \in DOMAIN a THEN a[k] ELSE b[k]]

TooltipChoices ==
    {[tooltip |-> TRUE, tooltip_format |-> f] :
        f \in {<<>>, <<FiveFields>>, <<AllFields>>}}
    \cup {[tooltip |-> FALSE, tooltip_format |-> <<FiveFields>>]}

\* configurations of the rendering, all bound to the sensor file PathA
DisplayConfigs ==
    {Merge([type |-> <<ty>>, warning_threshold |-> w, critical_threshold |-> c,
            format |-> f, format_critical |-> fc, format_warning |-> fw,
            tooltip_format |-> tc.tooltip_format, tooltip |-> tc.tooltip],
           NoLocator) :
        ty \in {"temperature", "fan", "power"},
        w \in {<<>>, <<60>>}, c \in {<<>>, <<80>>},
        f \in {<<>>, << <<>> >>},
        fc \in {<<>>, << <<>> >>, <<AllFields>>},
        fw \in {<<>>, <<WarnFormat>>},
        tc \in TooltipChoices}

DisplayFs == [files |-> [p \in {PathA} |-> File(L45123)], dirs |-> <<>>]

NoTick ==
    [readings |-> 0, critical |-> FALSE, warning |-> FALSE, format |-> <<>>,
     q |-> Quantities("TEMPERATURE", 0, 0, 0)]

----------------------------------------------------------------------------
(* The state machine.                                                      *)

\* the instance before its constructor body runs: the member initialisers
\* (sensor_type_{TEMPERATURE}, an empty file_path_) and an untouched label
Fresh ==
    /\ pc = "new"
    /\ error = NoError
    /\ file_path_ = <<>>
    /\ sensor_type_ = "TEMPERATURE"
    /\ classes = {}
    /\ visible = TRUE
    /\ markup = <<>>
    /\ tooltip = <<>>
    /\ tick = NoTick
    /\ outcome = "none"

Init ==
    /\ config \in DisplayConfigs
    /\ fs = DisplayFs
    /\ Fresh

\* Temperature::Temperature
Construct ==
    /\ pc = "new"
    /\ \E r \in Ctor(config, fs) :
          /\ pc' = r.pc
          /\ error' = r.error
          /\ file_path_' = r.file_path_
          /\ sensor_type_' = r.sensor_type_
    /\ UNCHANGED <<config, fs, classes, visible, markup, tooltip, tick, outcome>>

\* One tick: the sensor file now holds s, and update() runs
Update(s) ==
    /\ pc = "running"
    /\ LET fsys == [fs EXCEPT !.files[file_path_] = s]
           old == [classes |-> classes, visible |-> visible, markup |-> markup,
                   tooltip |-> tooltip, tick |-> tick]
       IN  /\ fs' = fsys
           /\ \E n \in UpdateResults(config, sensor_type_, fsys, file_path_, old) :
                 /\ classes' = n.classes
                 /\ visible' = n.visible
                 /\ markup' = n.markup
                 /\ tooltip' = n.tooltip
                 /\ tick' = n.tick
                 /\ outcome' = n.outcome
    /\ UNCHANGED <<config, pc, error, file_path_, sensor_type_>>

Poll == \E s \in SensorStates : Update(s)

Next == Construct \/ Poll

Spec == Init /\ [][Next]_vars

\* The ticks whose conversions to uint16_t (lines 73, 108, 109) are defined:
\* the rounded reading, and for a temperature its Fahrenheit and Kelvin
\* values, are within 0..65535.
WellDefined(s) ==
    s.st = "ok" =>
        LET fsys == [fs EXCEPT !.files[file_path_] = s]
            v == RoundReadings(getReadings(fsys, file_path_, sensor_type_))
        IN  /\ v >= 0
            /\ v < U16
            /\ sensor_type_ = "TEMPERATURE" =>
                  (Fahrenheit(v) < U16 /\ Kelvin(v) < U16)

PollInRange == \E s \in SensorStates : WellDefined(s) /\ Update(s)

NextInRange == Construct \/ PollInRange

\* the behaviours of Spec in which no tick has undefined behaviour
SpecInRange == Init /\ [][NextInRange]_vars

----------------------------------------------------------------------------
(* The constructor alone, over configurations and file systems of the      *)
(* path resolution.                                                        *)

LocatorConfigs ==
    {Merge([type |-> ty, hwmon_path |-> hp, hwmon_path_abs |-> ha,
            input_filename |-> inp, thermal_zone |-> tz],
           NoDisplay) :
        ty \in {<<>>, <<"fan">>, <<"power">>},
        hp \in {<<>>, <<PathA>>, <<PathA, PathB>>},
        ha \in {<<>>, <<DirD, DirE>>},
        inp \in {<<>>, <<InputName>>},
        tz \in {<<>>} \cup {<<z>> : z \in 0..MaxZone}}

ZonePaths == {ThermalZonePath(z) : z \in 0..MaxZone}

InputPaths ==
    {DirD \o Slash \o Hwmon3 \o Slash \o InputName,
     DirD \o Slash \o Hwmon4 \o Slash \o InputName,
     DirE \o Slash \o Hwmon4 \o Slash \o InputName}

NotDir == [isdir |-> FALSE, entries |-> {}]
Dir(entries) == [isdir |-> TRUE, entries |-> entries]

LocatorFs ==
    {[files |-> [p \in {PathA, PathB} \cup ZonePaths \cup InputPaths |->
                    IF p = PathA THEN a
                    ELSE IF p = PathB THEN b
                    ELSE IF p \in ZonePaths THEN z
                    ELSE h],
      dirs |-> [p \in {DirD, DirE} |-> IF p = DirD THEN d ELSE e]] :
        a \in {Missing, NoPerm, IoErr, File(L45123)},
        b \in {Missing, File(L45123)},
        z \in {Missing, NoPerm, File(L45123)},
        h \in {Missing, File(L45123)},
        d \in {NotDir, Dir({Power}), Dir({Hwmon3, Power}), Dir({Hwmon3, Hwmon4})},
        e \in {NotDir, Dir({Hwmon4})}}

InitCtor ==
    /\ config \in LocatorConfigs
    /\ fs \in LocatorFs
    /\ Fresh

NextCtor == Construct

SpecCtor == InitCtor /\ [][NextCtor]_vars

----------------------------------------------------------------------------
(* Properties.                                                             *)

\* the sensor file as the latest tick found it, and the long parsed from it
Sensor == FileAt(fs, file_path_)
Raw == strtol(Sensor.line)

\* the latest update() call got past the read and classified the reading
Classified == outcome \in {"hidden", "shown", "format_error"}

Threshold(v) == v[1]
Min(S) == CHOOSE x \in S : \A y \in S : x <= y

\* the divisor of the sensor type's unit conversion
UnitDivisor ==
    CASE sensor_type_ = "TEMPERATURE" -> 1000
      [] sensor_type_ = "POWER" -> 1000000
      [] OTHER -> 1

\* C1: after every tick at most one of the style classes "critical" and
\* "warning" is on the label, and the classes are exactly the one of the
\* tick's classification (critical, else warning, else none).
ClaimC1 ==
    /\ ~({"critical", "warning"} \subseteq classes)
    /\ Classified =>
          classes = IF tick.critical THEN {"critical"}
                    ELSE IF tick.warning THEN {"warning"}
                    ELSE {}

\* C2: the template a tick selects is format-critical (the base format when
\* that is not configured) if the reading is at or above the critical
\* threshold, else format-warning (or the base format) if it is at or above
\* the warning threshold, else the base format; a critical reading carries
\* the "critical" class and never selects the warning template.
TheoremC2 ==
    Classified =>
        LET crit == /\ config.critical_threshold # <<>>
                    /\ tick.readings >= Threshold(config.critical_threshold)
            warn == /\ config.warning_threshold # <<>>
                    /\ tick.readings >= Threshold(config.warning_threshold)
            base == IF config.format # <<>> THEN config.format[1] ELSE DefaultFormat
            want == IF crit
                    THEN IF config.format_critical # <<>>
                         THEN config.format_critical[1] ELSE base
                    ELSE IF warn /\ config.format_warning # <<>>
                    THEN config.format_warning[1]
                    ELSE base
        IN  /\ tick.format = want
            /\ crit => "critical" \in classes
            /\ (crit /\ warn /\ config.format_warning # <<>>)
                  => tick.format # config.format_warning[1]

\* a reading of 85 against warning=60, critical=80 with both templates
\* configured: the critical template and class were chosen
WitnessC2 ==
    /\ outcome = "shown"
    /\ tick.readings = 85
    /\ config.warning_threshold = <<60>>
    /\ config.critical_threshold = <<80>>
    /\ config.format_critical = <<AllFields>>
    /\ config.format_warning = <<WarnFormat>>
    /\ tick.format = AllFields
    /\ "critical" \in classes

\* C3: every tick that reads successfully leaves the surface hidden exactly
\* when the template it selected is empty, whatever the surface was before,
\* and a hidden tick changes neither the label text nor the tooltip.
TheoremC3 ==
    [][outcome' \in {"hidden", "shown", "format_error"} =>
          /\ (visible' = FALSE) <=> (tick'.format = <<>>)
          /\ tick'.format = <<>> => (markup' = markup /\ tooltip' = tooltip)]_vars

\* a critical tick whose template is empty hid a surface that an earlier
\* tick had shown with text
WitnessC3 ==
    /\ outcome = "hidden"
    /\ visible = FALSE
    /\ tick.critical
    /\ tick.format = <<>>
    /\ format_(config) # <<>>
    /\ markup # <<>>

\* C4: for every raw milli-Celsius value r the Fahrenheit and Kelvin values
\* substituted are round(r/1000*1.8+32) and round(r/1000+273.15), each rounded
\* from the unrounded Celsius value.
ClaimC4 ==
    (outcome = "shown" /\ sensor_type_ = "TEMPERATURE" /\ Sensor.st = "ok") =>
        /\ tick.q.temperature_f = RoundHalfAway(9 * Raw + 160000, 5000)
        /\ tick.q.temperature_k = RoundHalfAway(20 * Raw + 5463000, 20000)

\* C5: for every raw reading, negative and beyond 16 bits included, a tick is
\* critical exactly when critical-threshold is set and the rounded reading is
\* at or above it, and warning exactly when warning-threshold is set and the
\* rounded reading is at or above it.
ClaimC5 ==
    (Classified /\ Sensor.st = "ok") =>
        LET rounded == RoundHalfAway(Raw, UnitDivisor) IN
        /\ tick.critical <=> (/\ config.critical_threshold # <<>>
                              /\ rounded >= Threshold(config.critical_threshold))
        /\ tick.warning <=> (/\ config.warning_threshold # <<>>
                             /\ rounded >= Threshold(config.warning_threshold))

\* the line holds no decimal integer after optional blanks and sign
Malformed(line) ==
    LET s == SkipSpace(line)
        t == IF s # <<>> /\ Head(s) \in {"-", "+"} THEN Tail(s) ELSE s
    IN  t = <<>> \/ ~IsDigit(Head(t))

\* the tick's source cannot be opened, cannot be read, or is malformed
ReadFails(f) == f.st # "ok" \/ Malformed(f.line)

\* C6: a tick whose read fails (the source cannot be opened, cannot be read,
\* or holds malformed content) produces no update: style classes, shown or
\* hidden state, label text and tooltip stay as the previous tick left them.
ClaimC6 ==
    [][(pc = "running" /\ ReadFails(FileAt(fs', file_path_)))
          => display' = display]_vars

\* which of the three failure cases of construction a resolved path is in
CtorCase(fsys, path) ==
    CASE FileAt(fsys, path).st = "missing" -> "a"
      [] FileAt(fsys, path).st = "noperm" -> "b"
      [] FileAt(fsys, path).st = "ioerr" -> "c"
      [] OTHER -> "none"

\* C7: construction fails, and the thread is not started, when (a) no
\* candidate path exists, (b) the path exists but cannot be opened, (c) the
\* path opens but the first read fails; and the exception of one case differs
\* from the exception the same configuration gets in another case.
ClaimC7 ==
    pc # "new" =>
        /\ CtorCase(fs, file_path_) \in {"a", "b", "c"} => pc = "failed"
        /\ \A fs2 \in LocatorFs : \A r \in Ctor(config, fs2) :
              (/\ pc = "failed"
               /\ r.pc = "failed"
               /\ CtorCase(fs2, r.file_path_) # CtorCase(fs, file_path_))
                  => r.error # error

\* C8: the constructor binds the first hwmon-path item that exists; only if
\* none exists and input-filename is set, <entry>/<input-filename> for an
\* entry named hwmon* of the first hwmon-path-abs directory that has one;
\* only if that gives nothing and the kind is Temperature, the thermal zone's
\* path.
TheoremC8 ==
    pc # "new" =>
        LET hp == config.hwmon_path
            ha == config.hwmon_path_abs
            Ex == {i \in 1..Len(hp) : exists(fs, hp[i])}
            Dj == {j \in 1..Len(ha) :
                      /\ is_directory(fs, ha[j])
                      /\ \E e \in Entries(fs, ha[j]) : StartsWith(e, Hwmon)}
            zone == IF config.thermal_zone # <<>> THEN config.thermal_zone[1] ELSE 0
        IN  IF Ex # {} THEN file_path_ = hp[Min(Ex)]
            ELSE IF config.input_filename # <<>> /\ Dj # {}
            THEN \E e \in Entries(fs, ha[Min(Dj)]) :
                    /\ StartsWith(e, Hwmon)
                    /\ file_path_ = ha[Min(Dj)] \o <<"/">> \o e \o <<"/">>
                                      \o config.input_filename[1]
            ELSE IF sensor_type_ = "TEMPERATURE"
            THEN file_path_ = ThermalZonePath(zone)
            ELSE file_path_ = <<>>

\* the first hwmon-path item is missing, the second exists and so does the
\* thermal zone's file: the second item was bound
WitnessC8 ==
    /\ pc = "running"
    /\ sensor_type_ = "TEMPERATURE"
    /\ config.hwmon_path = <<PathA, PathB>>
    /\ ~exists(fs, PathA)
    /\ exists(fs, PathB)
    /\ exists(fs, ThermalZonePath(0))
    /\ file_path_ = PathB

\* C9: with tooltips enabled, a tick that renders the label also renders the
\* tooltip, from tooltip-format or the kind's default, with the placeholders
\* of the label's template ({icon} included), those of other kinds being 0.
ClaimC9 ==
    (tooltipEnabled(config) /\ outcome \in {"shown", "format_error"}) =>
        /\ outcome = "shown"
        /\ tooltip = Substitute(TooltipFormat(config, sensor_type_),
                                MarkupArgs(tick.q, <<"*">>))
        /\ sensor_type_ # "TEMPERATURE" =>
              /\ tick.q.temperature_c = 0
              /\ tick.q.temperature_f = 0
              /\ tick.q.temperature_k = 0
        /\ sensor_type_ # "FAN" => tick.q.fan_speed = 0
        /\ sensor_type_ # "POWER" => tick.q.power = 0

Truncated(n, d) == IF n < 0 THEN 0 - ((0 - n) \div d) ELSE n \div d

\* C10 as claimed: for the Power kind the value classified and substituted
\* for {power} is raw/1000000 with the fraction cut off.
ClaimC10 ==
    (sensor_type_ = "POWER" /\ Classified /\ Sensor.st = "ok") =>
        /\ tick.readings = Truncated(Raw, 1000000)
        /\ outcome = "shown" => tick.q.power = Truncated(Raw, 1000000)

\* C10 amended: for the Power kind the value classified and substituted for
\* {power} is raw/1000000 rounded to the nearest integer, halves away from
\* zero, the quotient being taken in single precision (a relative error of
\* at most 2^-24), whenever that integer is within 0..65535; 999999 gives 1.
TheoremC10 ==
    (sensor_type_ = "POWER" /\ Classified /\ Sensor.st = "ok") =>
        \E w \in {Truncated(Raw, 1000000) + k : k \in {-1, 0, 1}} :
            /\ 2 * Abs(Raw - w * 1000000) <= 1000000 + Abs(Raw) \div 8388608 + 1
            /\ 2 * (Abs(Raw) % 1000000) = 1000000 =>
                  Abs(w) = Abs(Raw) \div 1000000 + 1
            /\ (Raw = 999999 \/ Raw = 1250000) => w = 1
            /\ (w >= 0 /\ w < 65536) =>
                  /\ tick.readings = w
                  /\ outcome = "shown" => tick.q.power = w

\* a Power tick read 999999 and showed 1 W
WitnessC10 ==
    /\ sensor_type_ = "POWER"
    /\ outcome = "shown"
    /\ Sensor.st = "ok"
    /\ Raw = 999999
    /\ tick.readings = 1
    /\ tick.q.power = 1

====
